---------------------------- MODULE Spec2Model ----------------------------
(***************************************************************************)
(* Model of scripts/parallel_deblur.py: the `workflow` command that splits *)
(* a demultiplexed sequence file by sample, runs one deblur job per        *)
(* sample file through ParallelDeblur, and merges the per-sample BIOM      *)
(* tables found in the output directory.                                   *)
(*                                                                         *)
(* The script is the only file of the repository at hand.  Three callees   *)
(* are defined elsewhere and are modelled from the design document:        *)
(*   split_sequence_file_on_sample_ids_to_files  (the Partitioner)         *)
(*   ParallelDeblur                              (Builder/Dispatcher/Poller)*)
(*   merge_otu_tables                            (the Merger)              *)
(* merge_otu_tables is called at line 143 but is neither imported nor      *)
(* defined by the script; the model gives the call the Merger's contract.  *)
(***************************************************************************)
EXTENDS Integers, Sequences, FiniteSets, TLC

(***************************************************************************)
(* Bounds of the model.                                                    *)
(***************************************************************************)
MaxRuns == 2
MaxJobsToStart == 2
MaxBufferSize == 2

(***************************************************************************)
(* Strings are sequences of one-character strings, so that splitting a     *)
(* record label on a delimiter is computed and not assumed.                *)
(***************************************************************************)
DefaultDelim == "_"

Delims == {"_", "."}

Label_a1x == <<"a", "_", "1", ".", "x">>
Label_a2x == <<"a", "_", "2", ".", "x">>
Label_b1x == <<"b", "_", "1", ".", "x">>
Label_c1x == <<"c", "_", "1", ".", "x">>
Label_ab1 == <<"a", ".", "b", "_", "1">>
Label_ac1 == <<"a", ".", "c", "_", "1">>

\* Contents of the combined input files a run may be given (--seqs-fp).
SeqFiles ==
  { <<>>,
    <<Label_a1x, Label_b1x, Label_a2x, Label_c1x>>,
    <<Label_ab1, Label_ac1>> }

\* File names a run may be given for the merged table (--output-fp); all of
\* them lie in the same directory, out_dir.
OutputNames ==
  { [stem |-> <<"final">>, ext |-> "biom"],
    [stem |-> <<"final">>, ext |-> "tbl"] }

\* Caller-supplied parameter bundles (the options of lines 43-85).
DefaultBundle ==
  [ref_fp |-> "db1.fa", ref_db_fp |-> "db1.idx", read_error |-> "0.05",
   trim_length |-> "100", indel_max |-> "3", min_size |-> "2",
   negate |-> FALSE]

CustomBundle ==
  [ref_fp |-> "db2.fa", ref_db_fp |-> "db2.idx", read_error |-> "0.01",
   trim_length |-> "150", indel_max |-> "1", min_size |-> "10",
   negate |-> TRUE]

Bundles == {DefaultBundle, CustomBundle}

BundleKeys ==
  {"ref_fp", "ref_db_fp", "read_error", "trim_length", "indel_max",
   "min_size", "negate"}

Features == {"f1", "f2"}

VARIABLES
  splitExists,     \* does <out_dir>/split exist
  splitFiles,      \* <out_dir>/split/* : sample id -> sequence of records
  outDir,          \* files of out_dir : file name -> feature table
  opts,            \* the options of the current invocation of workflow
  pc,              \* position of the workflow function
  params,          \* local `params` (line 126)
  input_fps,       \* local `input_fps` (line 127)
  all_bioms,       \* local `all_bioms` (line 142), as a set of files
  descriptors,     \* the job descriptors ParallelDeblur built
  handles,         \* job handle state per partition
  limit,           \* jobs_to_start as ParallelDeblur received it
  partitionerRan,  \* did this invocation call the Partitioner
  strict,          \* the Merger's strict mode in this invocation
  mergeError,      \* error the Merger raised in this invocation
  exitStatus,      \* exit status of the last finished invocation
  runs             \* number of invocations so far

vars ==
  <<splitExists, splitFiles, outDir, opts, pc, params, input_fps, all_bioms,
    descriptors, handles, limit, partitionerRan, strict, mergeError,
    exitStatus, runs>>

EmptyFn == [x \in {} |-> x]

Range(f) == {f[x] : x \in DOMAIN f}

(***************************************************************************)
(* Labels and the Partitioner.                                             *)
(***************************************************************************)
\* Position of the first occurrence of d in label, 0 when there is none.
FirstIndex(label, d) ==
  IF \E i \in 1..Len(label) : label[i] = d
  THEN CHOOSE i \in 1..Len(label) :
         /\ label[i] = d
         /\ \A j \in 1..(i - 1) : label[j] # d
  ELSE 0

\* The substring of the label that precedes the delimiter.
SampleIdOf(label, d) ==
  IF FirstIndex(label, d) = 0
  THEN label
  ELSE SubSeq(label, 1, FirstIndex(label, d) - 1)

HasDelim(label, d) == FirstIndex(label, d) # 0

\* Append one record to the file of its sample, creating the file if needed.
WriteRecord(files, label, d) ==
  LET sid == SampleIdOf(label, d)
  IN  IF sid \in DOMAIN files
      THEN [files EXCEPT ![sid] = Append(@, label)]
      ELSE files @@ (sid :> <<label>>)

RECURSIVE FlushBuffer(_, _, _)
FlushBuffer(files, buf, d) ==
  IF buf = <<>>
  THEN files
  ELSE FlushBuffer(WriteRecord(files, Head(buf), d), Tail(buf), d)

\* Read buffer_size records, flush them to the per-sample files, repeat.
RECURSIVE SplitLoop(_, _, _, _)
SplitLoop(files, seqs, buffer_size, d) ==
  IF seqs = <<>>
  THEN files
  ELSE LET k == IF Len(seqs) < buffer_size THEN Len(seqs) ELSE buffer_size
       IN  SplitLoop(FlushBuffer(files, SubSeq(seqs, 1, k), d),
                     SubSeq(seqs, k + 1, Len(seqs)), buffer_size, d)

split_sequence_file_on_sample_ids_to_files(seqs, buffer_size, d) ==
  SplitLoop(EmptyFn, seqs, buffer_size, d)

\* Number of records over all files of the split directory.
RECURSIVE TotalRecords(_, _)
TotalRecords(files, names) ==
  IF names = {}
  THEN 0
  ELSE LET n == CHOOSE x \in names : TRUE
       IN  Len(files[n]) + TotalRecords(files, names \ {n})


(***************************************************************************)
(* Feature tables and the Merger.                                          *)
(***************************************************************************)
EmptyTable == [samples |-> {}, features |-> {}, data |-> EmptyFn]

\* A one-sample table: the artifact of the job of partition `sid`.
MkTable(sid, feats) ==
  [samples |-> {sid}, features |-> feats,
   data |-> [c \in feats \X {sid} |-> IF c[1] = "f1" THEN 1 ELSE 2]]

\* The table the denoising workflow produces for a partition (its content
\* is opaque to the workflow command; one representative is kept).
JobTables(sid) == {MkTable(sid, Features)}

\* Variant of the union that keeps only the rows of the first table.
MergeKeepLeftRows(A, B) ==
  [samples |-> A.samples \cup B.samples,
   features |-> A.features,
   data |-> [c \in A.features \X (A.samples \cup B.samples) |->
               IF c \in DOMAIN A.data THEN A.data[c]
               ELSE IF c \in DOMAIN B.data THEN B.data[c]
               ELSE 0]]

\* Union of two tables: union of rows, union of columns, absent cells 0.
Merge(A, B) ==
  [samples |-> A.samples \cup B.samples,
   features |-> A.features \cup B.features,
   data |-> [c \in (A.features \cup B.features) \X (A.samples \cup B.samples) |->
               IF c \in DOMAIN A.data THEN A.data[c]
               ELSE IF c \in DOMAIN B.data THEN B.data[c]
               ELSE 0]]

RECURSIVE MergeSeq(_, _)
MergeSeq(acc, tables) ==
  IF tables = <<>>
  THEN acc
  ELSE MergeSeq(Merge(acc, Head(tables)), Tail(tables))

\* The error the Merger raises for the artifact files fps of directory dir,
\* "none" when it raises none.
MergerError(dir, fps, expected, isStrict) ==
  IF isStrict /\ \E e \in expected : e \notin Range(fps)
  THEN "IncompleteMerge"
  ELSE IF \E i, j \in DOMAIN fps :
            i # j /\ dir[fps[i]].samples \cap dir[fps[j]].samples # {}
       THEN "DuplicateSample"
       ELSE "none"

\* Variant of the Merger that writes the output before it checks for errors.
merge_otu_tables_WriteFirst(dir, output_fp, fps, expected, isStrict) ==
  LET t == MergeSeq(EmptyTable, [i \in DOMAIN fps |-> dir[fps[i]]])
  IN  [n \in DOMAIN dir \cup {output_fp} |->
         IF n = output_fp THEN t ELSE dir[n]]

\* merge_otu_tables(output_fp, all_bioms): the directory after the call.
\* Nothing is written when an error is raised.
merge_otu_tables(dir, output_fp, fps, expected, isStrict) ==
  IF MergerError(dir, fps, expected, isStrict) # "none"
  THEN dir
  ELSE LET t == MergeSeq(EmptyTable, [i \in DOMAIN fps |-> dir[fps[i]]])
       IN  [n \in DOMAIN dir \cup {output_fp} |->
              IF n = output_fp THEN t ELSE dir[n]]

(***************************************************************************)
(* Paths.                                                                  *)
(***************************************************************************)
\* Output path of the job of a partition, derived from its sample id.
ArtifactName(sid) == [stem |-> sid, ext |-> "biom"]

\* glob('%s/*.biom' % out_dir)
GlobBiom(dir) == {n \in DOMAIN dir : n.ext = "biom"}

\* The orders in which glob may list a set of files.
Orders(S) ==
  {s \in [1..Cardinality(S) -> S] :
     \A i, j \in 1..Cardinality(S) : i # j => s[i] # s[j]}

(***************************************************************************)
(* ParallelDeblur: descriptors, handles, bounded dispatch.                 *)
(***************************************************************************)
BuildDescriptors(fps, ps) ==
  {[partition |-> p, output |-> ArtifactName(p), params |-> ps] : p \in fps}

Running == {p \in DOMAIN handles : handles[p] = "Running"}

Succeeded == {p \in DOMAIN handles : handles[p] = "Succeeded"}

Failed == {p \in DOMAIN handles : handles[p] = "Failed"}

AllTerminal == \A p \in DOMAIN handles : handles[p] \in {"Succeeded", "Failed"}

(***************************************************************************)
(* The workflow command.                                                   *)
(***************************************************************************)
AllOptions ==
  [seqs_fp : SeqFiles, output_fp : OutputNames, delim : Delims,
   buffer_size : 1..MaxBufferSize, jobs_to_start : 1..MaxJobsToStart,
   suppress_polling : BOOLEAN, bundle : Bundles]

\* The option defaults of lines 35-106, on the four-record input file.
DefaultOptions ==
  [seqs_fp |-> <<Label_a1x, Label_b1x, Label_a2x, Label_c1x>>,
   output_fp |-> [stem |-> <<"final">>, ext |-> "biom"],
   delim |-> DefaultDelim, buffer_size |-> MaxBufferSize, jobs_to_start |-> 1,
   suppress_polling |-> FALSE, bundle |-> DefaultBundle]

OptionNames ==
  {"seqs_fp", "output_fp", "delim", "buffer_size", "jobs_to_start",
   "suppress_polling", "bundle"}

\* The invocations explored: those that differ from the defaults in at most
\* two options.
Options ==
  {o \in AllOptions :
     Cardinality({k \in OptionNames : o[k] # DefaultOptions[k]}) <= 2}

Init ==
  /\ splitExists = FALSE
  /\ splitFiles = EmptyFn
  /\ outDir = EmptyFn
  /\ opts = DefaultOptions
  /\ pc = "idle"
  /\ params = EmptyFn
  /\ input_fps = {}
  /\ all_bioms = {}
  /\ descriptors = {}
  /\ handles = EmptyFn
  /\ limit = 0
  /\ partitionerRan = FALSE
  /\ strict = FALSE
  /\ mergeError = "none"
  /\ exitStatus = "none"
  /\ runs = 0

\* Variant of the guard that splits on every invocation.
SplitGuardAlways(exists) == TRUE

\* Line 118: the split is made only when the split directory is absent.
SplitGuard(exists) == ~exists

\* Lines 119-124: the call of the Partitioner; --delim is not passed on.
SplitCall(o) ==
  split_sequence_file_on_sample_ids_to_files(o.seqs_fp, o.buffer_size,
                                             DefaultDelim)

\* Lines 107-124: a new invocation, up to and including the guarded split.
SplitStep(o) ==
  /\ pc \in {"idle", "done", "aborted"}
  /\ AllTerminal
  /\ runs < MaxRuns
  /\ runs' = runs + 1
  /\ opts' = o
  /\ IF SplitGuard(splitExists)
     THEN /\ splitExists' = TRUE
          /\ splitFiles' = SplitCall(o)
          /\ partitionerRan' = TRUE
     ELSE /\ UNCHANGED <<splitExists, splitFiles>>
          /\ partitionerRan' = FALSE
  /\ pc' = "launch"
  /\ params' = EmptyFn
  /\ input_fps' = {}
  /\ all_bioms' = {}
  /\ descriptors' = {}
  /\ handles' = EmptyFn
  /\ limit' = 0
  /\ mergeError' = "none"
  /\ exitStatus' = "none"
  /\ UNCHANGED <<outDir, strict>>

\* Lines 126-130: the parameters handed to the jobs.
BuildParams(o) ==
  [ref_db_fp |-> o.bundle.ref_db_fp, ref_fp |-> o.bundle.ref_fp,
   jobs_to_start |-> o.jobs_to_start]

\* Variant that hands the runner one slot too many.
RunnerJobsToStartOffByOne(o) == o.jobs_to_start + 1

\* Line 134: the concurrency handed to ParallelDeblur.
RunnerJobsToStart(o) == o.jobs_to_start

\* Lines 126-140: build params, list the split files, start the runner.
\* With polling suppressed the runner returns at once.
LaunchJobs ==
  /\ pc = "launch"
  /\ params' = BuildParams(opts)
  /\ input_fps' = DOMAIN splitFiles
  /\ limit' = RunnerJobsToStart(opts)
  /\ descriptors' = BuildDescriptors(DOMAIN splitFiles, BuildParams(opts))
  /\ handles' = [p \in DOMAIN splitFiles |-> "Queued"]
  /\ pc' = IF opts.suppress_polling THEN "merge" ELSE "poll"
  /\ UNCHANGED <<splitExists, splitFiles, outDir, opts, all_bioms,
                 partitionerRan, strict, mergeError, exitStatus, runs>>

\* The Dispatcher starts a queued job when a slot is free.
JobStart(p) ==
  /\ p \in DOMAIN handles
  /\ handles[p] = "Queued"
  /\ Cardinality(Running) < limit
  /\ handles' = [handles EXCEPT ![p] = "Running"]
  /\ UNCHANGED <<splitExists, splitFiles, outDir, opts, pc, params,
                 input_fps, all_bioms, descriptors, limit, partitionerRan,
                 strict, mergeError, exitStatus, runs>>

\* A job ends with its artifact written at its expected output path.
JobSucceed(p) ==
  /\ p \in DOMAIN handles
  /\ handles[p] = "Running"
  /\ \E t \in JobTables(p) :
       outDir' = [n \in DOMAIN outDir \cup {ArtifactName(p)} |->
                    IF n = ArtifactName(p) THEN t ELSE outDir[n]]
  /\ handles' = [handles EXCEPT ![p] = "Succeeded"]
  /\ UNCHANGED <<splitExists, splitFiles, opts, pc, params, input_fps,
                 all_bioms, descriptors, limit, partitionerRan, strict,
                 mergeError, exitStatus, runs>>

\* The denoising workflow raises: the error is caught and recorded on the
\* handle, and no artifact is written.
JobFail(p) ==
  /\ p \in DOMAIN handles
  /\ handles[p] = "Running"
  /\ handles' = [handles EXCEPT ![p] = "Failed"]
  /\ UNCHANGED <<splitExists, splitFiles, outDir, opts, pc, params,
                 input_fps, all_bioms, descriptors, limit, partitionerRan,
                 strict, mergeError, exitStatus, runs>>

\* The Poller returns once every handle is terminal.
PollDone ==
  /\ pc = "poll"
  /\ AllTerminal
  /\ pc' = "merge"
  /\ UNCHANGED <<splitExists, splitFiles, outDir, opts, params, input_fps,
                 all_bioms, descriptors, handles, limit, partitionerRan,
                 strict, mergeError, exitStatus, runs>>

\* Lines 142-143: glob the output directory and merge what is found.  The
\* call passes neither a strict flag nor the expected artifacts; an error
\* of the Merger is not caught and ends the command.
MergeCall ==
  /\ \E fps \in Orders(GlobBiom(outDir)) :
       /\ all_bioms' = Range(fps)
       /\ mergeError' = MergerError(outDir, fps, {}, FALSE)
       /\ outDir' = merge_otu_tables(outDir, opts.output_fp, fps, {}, FALSE)
  /\ strict' = FALSE
  /\ pc' = IF mergeError' = "none" THEN "done" ELSE "aborted"
  /\ exitStatus' = IF mergeError' = "none" THEN "zero" ELSE "nonzero"
  /\ UNCHANGED <<splitExists, splitFiles, opts, params, input_fps,
                 descriptors, handles, limit, partitionerRan, runs>>

\* Variant of the merge step that gives up when a job has failed.
MergeStepAbortOnFailure ==
  /\ pc = "merge"
  /\ IF Failed # {}
     THEN /\ pc' = "aborted"
          /\ exitStatus' = "nonzero"
          /\ UNCHANGED <<splitExists, splitFiles, outDir, opts, params,
                         input_fps, all_bioms, descriptors, handles, limit,
                         partitionerRan, strict, mergeError, runs>>
     ELSE MergeCall

\* Lines 141-143: reached as soon as the runner returns, whatever the jobs
\* did and whether or not polling was suppressed.
MergeStep ==
  /\ pc = "merge"
  /\ MergeCall

Next ==
  \/ \E o \in Options : SplitStep(o)
  \/ LaunchJobs
  \/ \E p \in DOMAIN handles : JobStart(p)
  \/ \E p \in DOMAIN handles : JobSucceed(p)
  \/ \E p \in DOMAIN handles : JobFail(p)
  \/ PollDone
  \/ MergeStep

Spec == Init /\ [][Next]_vars

(***************************************************************************)
(* The Merger on its own: a caller hands it the artifacts of an output     *)
(* directory, in any order, with or without strict mode.                   *)
(***************************************************************************)
MergeSamples == {<<"a">>, <<"b">>, <<"c">>}

MergeTables ==
  {MkTable(sid, feats) :
     sid \in MergeSamples, feats \in {{"f1"}, {"f2"}, {"f1", "f2"}}}

\* The directories the Merger may be run on: every expected artifact is
\* missing or holds some one-sample table.
MergeDirs ==
  UNION {[D -> MergeTables] : D \in SUBSET {ArtifactName(p) : p \in MergeSamples}}

InitMerge ==
  /\ splitExists = TRUE
  /\ splitFiles = [p \in MergeSamples |-> <<>>]
  /\ outDir \in MergeDirs
  /\ opts = DefaultOptions
  /\ pc = "merge"
  /\ params = BuildParams(DefaultOptions)
  /\ input_fps = MergeSamples
  /\ all_bioms = {}
  /\ descriptors = BuildDescriptors(MergeSamples, BuildParams(DefaultOptions))
  /\ handles = [p \in MergeSamples |->
                  IF ArtifactName(p) \in DOMAIN outDir
                  THEN "Succeeded" ELSE "Failed"]
  /\ limit = 1
  /\ partitionerRan = FALSE
  /\ strict \in BOOLEAN
  /\ mergeError = "none"
  /\ exitStatus = "none"
  /\ runs = 1

\* The artifacts the descriptors promise.
Expected == {d.output : d \in descriptors}

\* One run of the Merger over the artifacts found in the directory.
MergerInvoke ==
  /\ pc = "merge"
  /\ \E fps \in Orders(GlobBiom(outDir)) :
       /\ all_bioms' = Range(fps)
       /\ mergeError' = MergerError(outDir, fps, Expected, strict)
       /\ outDir' = merge_otu_tables(outDir, opts.output_fp, fps, Expected,
                                     strict)
  /\ pc' = IF mergeError' = "none" THEN "done" ELSE "aborted"
  /\ exitStatus' = IF mergeError' = "none" THEN "zero" ELSE "nonzero"
  /\ UNCHANGED <<splitExists, splitFiles, opts, params, input_fps,
                 descriptors, handles, limit, partitionerRan, strict, runs>>

NextMerge == MergerInvoke

SpecMerge == InitMerge /\ [][NextMerge]_vars

(***************************************************************************)
(* Properties.                                                             *)
(***************************************************************************)
\* The step in which the workflow command performs its merge.
MergeHappens == pc = "merge" /\ pc' \in {"done", "aborted"}

\* Two distinct globbed files of the directory share a sample identifier.
SharedSample(dir) ==
  \E m, n \in GlobBiom(dir) : m # n /\ dir[m].samples \cap dir[n].samples # {}

\* C1: the merge of a run happens only after the Poller has reported that
\* every dispatched job is finished, and a run with polling suppressed
\* performs no merge at all.
C1_MergeOnlyAfterPolledCompletion ==
  [][MergeHappens => (~opts.suppress_polling /\ AllTerminal)]_vars

\* C2: in every reachable state the number of Running handles is at most
\* the jobs_to_start the caller asked for, whichever queued job was started.
C2_RunningWithinJobsToStart == Cardinality(Running) <= opts.jobs_to_start

\* C2 witness: every slot is taken, more than one job runs and a queued job
\* has to wait.
C2_SlotsFullWitness ==
  /\ Cardinality(Running) = opts.jobs_to_start
  /\ Cardinality(Running) >= 2
  /\ \E p \in DOMAIN handles : handles[p] = "Queued"

C4_PartitionsFollowConfiguredDelim ==
  (/\ partitionerRan
   /\ \A i \in 1..Len(opts.seqs_fp) : HasDelim(opts.seqs_fp[i], opts.delim))
    => (/\ DOMAIN splitFiles =
             {SampleIdOf(opts.seqs_fp[i], opts.delim) : i \in 1..Len(opts.seqs_fp)}
        /\ TotalRecords(splitFiles, DOMAIN splitFiles) = Len(opts.seqs_fp))

\* C5: once the jobs are launched there is exactly one descriptor per
\* partition, with pairwise distinct partition files and output paths, and
\* every descriptor carries the caller's whole parameter bundle.
C5_DescriptorsCarryWholeBundle ==
  (pc \in {"poll", "merge", "done", "aborted"})
    => (/\ \A p \in DOMAIN splitFiles :
             Cardinality({d \in descriptors : d.partition = p}) = 1
        /\ \A d \in descriptors : d.partition \in DOMAIN splitFiles
        /\ \A d, e \in descriptors : d # e => d.output # e.output
        /\ \A d \in descriptors : \A k \in BundleKeys :
             k \in DOMAIN d.params /\ d.params[k] = opts.bundle[k])

\* C6: when a run has ended, all its jobs are finished and some of them
\* failed, the merge has completed and the merged table holds the samples
\* of exactly the partitions whose jobs succeeded.
C6_MergedHoldsExactlySucceeded ==
  (pc \in {"done", "aborted"} /\ AllTerminal /\ Failed # {})
    => (/\ pc = "done"
        /\ opts.output_fp \in DOMAIN outDir
        /\ outDir[opts.output_fp].samples = Succeeded)

\* C7: the Merger fails with IncompleteMerge exactly when it is strict and
\* an expected artifact is missing, otherwise with DuplicateSample exactly
\* when two artifacts share a sample; whenever it fails the run aborts with
\* a non-zero status and the output directory is left as it was.
C7_MergerErrorsWriteNothing ==
  [][MergeHappens =>
       LET missing == \E e \in Expected : e \notin GlobBiom(outDir)
       IN  /\ (mergeError' = "IncompleteMerge") <=> (strict /\ missing)
           /\ (mergeError' = "DuplicateSample")
                <=> (~(strict /\ missing) /\ SharedSample(outDir))
           /\ (mergeError' # "none")
                => (/\ pc' = "aborted"
                    /\ exitStatus' = "nonzero"
                    /\ outDir' = outDir)]_vars

\* C7 witness: a strict merge over a directory with a missing artifact and
\* a duplicated sample was aborted and no output file exists.
C7_AbortedMergeWitness ==
  /\ pc = "aborted"
  /\ mergeError = "IncompleteMerge"
  /\ SharedSample(outDir)
  /\ opts.output_fp \notin DOMAIN outDir

\* The tables of the files the Merger was given.
MergedInputs == {outDir[n] : n \in all_bioms}

RECURSIVE UnionOf(_)
UnionOf(sets) ==
  IF sets = {}
  THEN {}
  ELSE LET x == CHOOSE y \in sets : TRUE
       IN  x \cup UnionOf(sets \ {x})

\* C8: on tables with disjoint samples the union is commutative and
\* associative and has the union of the rows and of the columns; and the
\* table a completed merge wrote is the same for every order of its inputs.
C8_MergeOrderIndependent ==
  LET tables == Range(outDir)
  IN  /\ \A A, B \in tables :
           (A.samples \cap B.samples = {})
             => (/\ Merge(A, B) = Merge(B, A)
                 /\ Merge(A, B).features = A.features \cup B.features
                 /\ Merge(A, B).samples = A.samples \cup B.samples)
      /\ \A A, B, C \in tables :
           (/\ A.samples \cap B.samples = {}
            /\ A.samples \cap C.samples = {}
            /\ B.samples \cap C.samples = {})
             => Merge(Merge(A, B), C) = Merge(A, Merge(B, C))
      /\ (pc = "done")
           => (/\ \A fps \in Orders(all_bioms) :
                    outDir[opts.output_fp] =
                      MergeSeq(EmptyTable, [i \in DOMAIN fps |-> outDir[fps[i]]])
               /\ outDir[opts.output_fp].features =
                    UnionOf({t.features : t \in MergedInputs})
               /\ outDir[opts.output_fp].samples =
                    UnionOf({t.samples : t \in MergedInputs}))

\* C8 witness: a merge of three artifacts with different rows completed.
C8_ThreeWayMergeWitness ==
  /\ pc = "done"
  /\ Cardinality(all_bioms) = 3
  /\ \E A, B \in MergedInputs : A.features # B.features /\ A.features \cap B.features = {}

\* C9: a job that fails changes nothing but its own handle (the command
\* goes on, the other handles are untouched), and a run whose merge raised
\* no error ends with exit status zero whatever its jobs did.
C9_JobFailureIsContained ==
  /\ [][\A p \in DOMAIN handles :
          (handles[p] = "Running" /\ p \in DOMAIN handles' /\ handles'[p] = "Failed")
            => (/\ pc' = pc
                /\ exitStatus' = exitStatus
                /\ \A q \in DOMAIN handles \ {p} : handles'[q] = handles[q])]_vars
  /\ []((pc \in {"done", "aborted"} /\ mergeError = "none")
          => (pc = "done" /\ exitStatus = "zero"))

\* C9 witness: a polled run in which one job failed and another succeeded
\* afterwards ended with exit status zero.
C9_FailedJobZeroExitWitness ==
  /\ pc = "done"
  /\ exitStatus = "zero"
  /\ ~opts.suppress_polling
  /\ Failed # {}
  /\ Succeeded # {}

\* C10: the files a run hands to the Merger are exactly the artifacts its
\* own jobs have produced.
C10_MergeInputsAreThisRunsArtifacts ==
  [][MergeHappens => all_bioms' = {ArtifactName(p) : p \in Succeeded}]_vars

==========================================================================
